---- MODULE Spec2Model ----
(***************************************************************************)
(* A model of the response-ingestion engine of the OpenAI Sublime Text     *)
(* plugin: plugins/openai_worker.py (OpenAIWorker) and                     *)
(* plugins/openai_network_client.py (NetworkClient).                       *)
(*                                                                         *)
(* One worker turn is modelled: manage_chat_completion sends a request,    *)
(* handle_response ingests the answer (streamed or buffered), tool calls   *)
(* recurse into handle_response, a context-length error may be retried.    *)
(* Python's call stack is the variable `stack`; the variables full_*,      *)
(* tool_calls and ti are the locals of the running activation.             *)
(*                                                                         *)
(* Text is modelled by TLA+ strings (concatenation \o, length Len).  The   *)
(* JSON text of a tool call's arguments is a sequence of tokens: "{" and   *)
(* "}" and one token per member of the object.                             *)
(***************************************************************************)
EXTENDS Integers, Sequences, FiniteSets, TLC

(* ------------------------------ bounds -------------------------------- *)

\* chunks pulled from the transport during one turn (all responses)
MaxChunks == 2
\* requests sent on the transport during one turn
MaxRequests == 3
\* number of question/answer pairs a session's cache may start with
MaxHistory == 1
\* links of the phantom the user follows during one turn
MaxClicks == 2

(* --------------------------- Python values ----------------------------- *)

\* Python's None (JSON null) where a string is expected
None == "None"

\* dict.get(key): the value, or None when the key is absent
Get(d, k) == IF k \in DOMAIN d THEN d[k] ELSE None

\* truth value of `d.get(k)` for a string-valued key: None and '' are falsy
TruthyStr(d, k) == k \in DOMAIN d /\ d[k] # None /\ d[k] # ""

\* truth value of `d.get(k)` for a list-valued key: absent and [] are falsy
TruthySeq(d, k) == k \in DOMAIN d /\ d[k] # <<>>

\* the dict {} of Python
EmptyDict == [k \in {} |-> None]

\* original[key] = value
DictSet(d, k, v) == [x \in DOMAIN d \cup {k} |-> IF x = k THEN v ELSE d[x]]

PromptModes == {"panel", "phantom", "append", "replace", "insert"}

(* --------------------------- the stream's chunks ----------------------- *)

\* JSON text of a tool call's arguments, token by token
ArgsWhole == <<"{", "file_path", "content", "}">>
ArgsHead == <<"{", "file_path", "content">>
ArgsTail == <<"}">>

\* the arguments of the tools as FUNCTION_DATA advertises them: a region is
\* an object {a, b}, a position an integer; ArgsAppendObject gives the
\* position as an object instead
ArgsRegion == <<"{", "file_path", "region", "}">>
ArgsReplace == <<"{", "file_path", "region", "content", "}">>
ArgsAppend == <<"{", "file_path", "position", "content", "}">>
ArgsAppendObject == <<"{", "file_path", "position_object", "content", "}">>

\* the tool calls a provider sends: the five advertised functions with
\* arguments of their schema, append_text_to_point also with an object as
\* position, and a name that is not advertised
ToolInputs ==
    {[name |-> "get_region_for_text", arguments |-> ArgsWhole],
     [name |-> "replace_text_for_region", arguments |-> ArgsReplace],
     [name |-> "append_text_to_point", arguments |-> ArgsAppend],
     [name |-> "append_text_to_point", arguments |-> ArgsAppendObject],
     [name |-> "erase_content_of_region", arguments |-> ArgsRegion],
     [name |-> "read_region_content", arguments |-> ArgsRegion],
     [name |-> "unlisted_function", arguments |-> ArgsWhole]}

CallId(i) == IF i = 0 THEN "call_0" ELSE "call_1"

\* the first fragment of a streamed tool call: index, id, type, name, arguments
FirstFrag(i, n, a) ==
    [index |-> i, id |-> CallId(i), type |-> "function",
     function |-> [name |-> n, arguments |-> a]]

\* a later fragment of a streamed tool call: index and partial arguments
ContFrag(i, a) == [index |-> i, function |-> [arguments |-> a]]

CallIndexes == {0, 1}

\* the tool calls the answer to the request-th request of the turn asks for:
\* the first answer any of them, a later one get_region_for_text
ToolInputsOf(request) ==
    IF request = 1 THEN ToolInputs
    ELSE {t \in ToolInputs : t.name = "get_region_for_text"}

\* the `tool_calls` lists a delta may carry when the calls in `opened` have
\* been opened by earlier deltas: a provider opens call 0 before call 1
\* (alone or both in one delta) and continues only opened calls
ToolCallLists(opened, request) ==
    IF opened = {}
    THEN {<<FirstFrag(0, t.name, t.arguments)>> : t \in ToolInputsOf(request)}
         \cup {<<FirstFrag(0, "get_region_for_text", ArgsWhole),
                 FirstFrag(1, "get_region_for_text", a)>> : a \in {ArgsWhole, ArgsHead}}
         \cup {<<FirstFrag(0, "get_region_for_text", ArgsWhole),
                 FirstFrag(1, "replace_text_for_region", ArgsReplace)>>}
    ELSE {<<ContFrag(i, ArgsTail)>> : i \in opened}
         \cup {<<FirstFrag(i, "get_region_for_text", a)>> :
                  i \in CallIndexes \ opened, a \in {ArgsWhole, ArgsHead}}
         \cup (IF opened = CallIndexes
               THEN {<<ContFrag(0, ArgsTail), ContFrag(1, ArgsTail)>>}
               ELSE {})

\* the calls a `tool_calls` list opens
NewCalls(calls) == Cardinality({i \in 1..Len(calls) : "id" \in DOMAIN calls[i]})

\* choices[0].delta of one SSE event: it carries content or tool calls; the
\* provider opens no more calls than `room`, the follow-up requests it is
\* still going to answer
Deltas(opened, request, room) ==
    (IF request = 1
     THEN {[role |-> "assistant", content |-> "a"], [content |-> "b"],
           [role |-> "assistant", content |-> ""]}
     ELSE {[role |-> "assistant", content |-> "a"]})
    \cup {d \in {[tool_calls |-> t] : t \in ToolCallLists(opened, request)}
                \cup (IF opened = {}
                      THEN {[role |-> "assistant", content |-> None,
                             tool_calls |-> <<FirstFrag(0, "get_region_for_text", ArgsHead)>>]}
                      ELSE {}) :
             NewCalls(d.tool_calls) <= room}

\* the line endings of an event stream
LineEndings == {"\n", "\r\n"}

\* one line of the response body, as the loop of handle_streaming_response sees it:
\*   other  - does not start with 'data:' (blank separator lines, comments)
\*   done   - 'data: [DONE]' followed by the line ending `eol`
\*   bad    - 'data:' followed by text that JSONDecoder rejects, or by an
\*            object without choices[0]
\*   nodelta - an event whose choices[0] has no 'delta'
\*   event  - an event with choices[0].delta
Chunks(opened, request, room) ==
    {[kind |-> k] : k \in IF request = 1 THEN {"other", "bad", "nodelta"}
                          ELSE {"bad"}}
    \cup {[kind |-> "done", eol |-> e] : e \in LineEndings}
    \cup {[kind |-> "event", delta |-> d] : d \in Deltas(opened, request, room)}

(* ------------------------ pure functions of the worker ----------------- *)

\* re.search(r'\[DONE\]$', chunk_str), line 375: `$` matches at the end of the
\* line and before a line feed that ends it, so the marker has to be
\* followed by nothing or by "\n"
done_found(chunk) ==
    /\ chunk.kind = "done"
    /\ chunk.eol \in {"", "\n"}

\* line 375: the line is stripped of 'data:' and given to the JSON decoder
is_decoded(chunk) ==
    /\ chunk.kind # "other"
    /\ ~done_found(chunk)

\* lines 376-390: decoding the line or reading choices[0] raises ('[DONE]'
\* is no JSON text)
decode_raises(chunk) ==
    /\ is_decoded(chunk)
    /\ chunk.kind \in {"bad", "done"}

\* where handle_sse_delta / handle_whole_response send text in each mode
Dest(mode) ==
    IF mode = "panel" THEN "panel"
    ELSE IF mode = "phantom" THEN "phantom"
    ELSE "buffer"

\* handle_sse_delta with the fragment put in front of the text merged so far
handle_sse_delta_prepends(delta, full_response_content, mode) ==
    IF mode = "panel"
    THEN LET withRole == IF "role" \in DOMAIN delta
                         THEN [full_response_content EXCEPT !.role = delta.role]
                         ELSE full_response_content
         IN IF "content" \in DOMAIN delta
            THEN [withRole EXCEPT !.content = delta.content \o @]
            ELSE withRole
    ELSE full_response_content

\* handle_sse_delta: the new value of full_response_content
handle_sse_delta(delta, full_response_content, mode) ==
    IF mode = "panel"
    THEN LET withRole == IF "role" \in DOMAIN delta
                         THEN [full_response_content EXCEPT !.role = delta.role]
                         ELSE full_response_content
         IN IF "content" \in DOMAIN delta
            THEN [withRole EXCEPT !.content = @ \o delta.content]
            ELSE withRole
    ELSE full_response_content

\* handle_sse_delta holding the text back
sse_buffered(delta, mode) == <<>>

\* handle_sse_delta: the text it hands to the Presentation Sink
sse_emitted(delta, mode) ==
    IF "content" \in DOMAIN delta
    THEN <<[dest |-> Dest(mode), text |-> delta.content]>>
    ELSE <<>>

\* the keys whose values are strings (may be None in a delta)
StringKeys == {"role", "content", "id", "type", "name"}

IsNoneValue(k, v) == k \in StringKeys /\ v = None

RECURSIVE append_non_null_dict(_, _)
RECURSIVE append_non_null_list(_, _, _)

\* append_non_null on two values stored under key k: int + int, str + str,
\* dict with dict, list with list
append_non_null_value(k, original, append) ==
    IF k = "index" THEN original + append
    ELSE IF k \in StringKeys \cup {"arguments"} THEN original \o append
    ELSE IF k = "function" THEN append_non_null_dict(original, append)
    ELSE IF k = "tool_calls" THEN append_non_null_list(original, append, 1)
    ELSE original

\* append_non_null, the dict branch: every non-None value of `append` is
\* merged into the value `original` holds under the same key, or stored
append_non_null_dict(original, append) ==
    LET given == {k \in DOMAIN append : ~IsNoneValue(k, append[k])}
    IN [k \in DOMAIN original \cup given |->
           IF k \in given
           THEN IF k \in DOMAIN original
                THEN append_non_null_value(k, original[k], append[k])
                ELSE append[k]
           ELSE original[k]]

\* append_non_null, the list branch, from position i of `append` on: the
\* item at position i is compared with the fragment `original` holds at the
\* same position; on equal 'index' it is merged and the function returns,
\* otherwise the item is appended.  (original[i] exists: the list starts
\* non-empty and grows by one for every item passed over.)
append_non_null_list(original, append, i) ==
    IF i > Len(append) THEN original
    ELSE IF Get(original[i], "index") = append[i].index
         THEN [original EXCEPT ![i] = append_non_null_dict(original[i], append[i])]
         ELSE append_non_null_list(Append(original, append[i]), append, i + 1)

\* append_non_null(full_function_call, delta)
append_non_null(full_function_call, delta) ==
    append_non_null_dict(full_function_call, delta)

\* json.loads of an arguments text succeeds on "{" members "}"
loads_ok(arguments) ==
    /\ Len(arguments) >= 2
    /\ arguments[1] = "{"
    /\ arguments[Len(arguments)] = "}"
    /\ \A i \in 2..(Len(arguments) - 1) : arguments[i] \notin {"{", "}"}

\* json.loads: the members of the parsed object
loads(arguments) == {arguments[i] : i \in 2..(Len(arguments) - 1)}

\* the finalisation without the parse of the arguments
tool_call_ok_unparsed(call) ==
    /\ {"index", "id", "type", "function"} \subseteq DOMAIN call
    /\ {"name", "arguments"} \subseteq DOMAIN call.function

\* the ToolCall(...) built from one entry of full_function_call['tool_calls']
\* can be built: the keys read exist and the arguments parse
tool_call_ok(call) ==
    /\ {"index", "id", "type", "function"} \subseteq DOMAIN call
    /\ {"name", "arguments"} \subseteq DOMAIN call.function
    /\ loads_ok(call.function.arguments)

ToolCall(call) ==
    [index |-> call.index, id |-> call.id, type |-> call.type,
     function |-> [name |-> call.function.name,
                   arguments |-> loads(call.function.arguments)]]

\* the members a handler of handle_function_call asks of the arguments,
\* each of the type its isinstance test accepts; a name without a branch
\* has no entry
HandlerMembers ==
    [get_region_for_text |-> {"file_path", "content"},
     replace_text_for_region |-> {"file_path", "region", "content"},
     append_text_to_point |-> {"file_path", "position_object", "content"},
     erase_content_of_region |-> {"file_path", "region"}]

\* the conditions without the test of find_open_file
tool_executes_any_file(tool, open) ==
    /\ tool.function.name \in DOMAIN HandlerMembers
    /\ HandlerMembers[tool.function.name] \subseteq tool.function.arguments

\* handle_function_call: the conditions under which a tool call is executed:
\* a branch for the name, the members it asks for, and find_open_file
\* returning the document
tool_executes(tool, open) ==
    /\ tool.function.name \in DOMAIN HandlerMembers
    /\ HandlerMembers[tool.function.name] \subseteq tool.function.arguments
    /\ open

\* the value the arguments of a call give to one of their members
Arg(tool, member) == member \o " of " \o tool.id

\* the escaping of get_region_for_text (lines 244-251)
Escape(text) == "escaped(" \o text \o ")"

\* the local escaped_string of handle_function_call when the call at
\* position i of `calls` is handled: assigned by the get_region_for_text
\* calls executed before it, unbound otherwise
Unbound == "<unbound>"

RECURSIVE escaped_string(_, _, _)
escaped_string(calls, i, open) ==
    IF i <= 1 THEN Unbound
    ELSE IF /\ calls[i - 1].function.name = "get_region_for_text"
            /\ tool_executes(calls[i - 1], open)
         THEN Escape(Arg(calls[i - 1], "content"))
         ELSE escaped_string(calls, i - 1, open)

\* the command a handler runs on the document (view.run_command), none for
\* get_region_for_text
tool_command(calls, i, open) ==
    LET tool == calls[i]
        name == tool.function.name
    IN IF name = "replace_text_for_region"
       THEN <<[command |-> "replace_region",
               region |-> Arg(tool, "content"),
               text |-> escaped_string(calls, i, open)]>>
       ELSE IF name = "append_text_to_point"
       THEN <<[command |-> "text_stream_at",
               position |-> Arg(tool, "position_object"),
               text |-> Arg(tool, "content")]>>
       ELSE IF name = "erase_content_of_region"
       THEN <<[command |-> "erase_region_command", region |-> Arg(tool, "region")]>>
       ELSE <<>>

\* dumps(serializable_region)
RegionResult == "{begin, end}"

\* dumps('{"success": true }')
SuccessResult == "{success: true}"

\* the content of the tool message a handler builds
tool_result(tool) ==
    IF tool.function.name = "get_region_for_text" THEN RegionResult ELSE SuccessResult

RECURSIVE SumTokens(_, _)
SumTokens(messages, i) ==
    IF i > Len(messages) THEN 0
    ELSE (IF "content" \in DOMAIN messages[i]
          THEN Len(messages[i].content) \div 4 ELSE 0)
         + SumTokens(messages, i + 1)

RECURSIVE SumTokensRoundedUp(_, _)
SumTokensRoundedUp(messages, i) ==
    IF i > Len(messages) THEN 0
    ELSE (IF "content" \in DOMAIN messages[i]
          THEN (Len(messages[i].content) + 3) \div 4 ELSE 0)
         + SumTokensRoundedUp(messages, i + 1)

\* the estimate with every quotient rounded up
calculate_prompt_tokens_rounded_up(messages) == SumTokensRoundedUp(messages, 1)

\* NetworkClient.calculate_prompt_tokens
calculate_prompt_tokens(messages) == SumTokens(messages, 1)

\* OpenAIWorker.calculate_completion_tokens([response])
calculate_completion_tokens(response) ==
    IF response.content # "" /\ response.role = "assistant"
    THEN Len(response.content) \div 4 ELSE 0

UserMessage(text) == [role |-> "user", content |-> text, name |-> "OpenAI_completion"]

ToolMessage(text, id) ==
    [role |-> "tool", content |-> text, tool_call_id |-> id, name |-> "OpenAI_completion"]

\* create_message: the cache, then the placeholder as a system message, then
\* one user message per selected text, then the command as a tool message
\* (tool_call_id given) or as a user message
create_message(cached, selected_text, command, placeholder, tool_call_id) ==
    cached
    \o (IF placeholder = None \/ placeholder = "" THEN <<>>
        ELSE <<[role |-> "system", content |-> "placeholder: " \o placeholder,
                name |-> "OpenAI_completion"]>>)
    \o [i \in 1..Len(selected_text) |-> UserMessage(selected_text[i])]
    \o (IF command = None \/ command = "" THEN <<>>
        ELSE IF tool_call_id # None THEN <<ToolMessage(command, tool_call_id)>>
        ELSE <<UserMessage(command)>>)

\* the classification with the test of error.type and error.param left out
is_context_length_by_code_only(data) ==
    LET error == IF "error" \in DOMAIN data THEN data.error ELSE EmptyDict
    IN Get(error, "code") = "context_length_exceeded"

\* _execute_network_request: the error body names a context-length overflow
is_context_length(data) ==
    LET error == IF "error" \in DOMAIN data THEN data.error ELSE EmptyDict
    IN \/ Get(error, "code") = "context_length_exceeded"
       \/ (Get(error, "type") = "invalid_request_error"
           /\ Get(error, "param") = "max_tokens")

\* a retry that asks for one pair only
DropOnePair == 2 - 1

\* the number of pairs handle_response asks the cache to drop
DropPairs == 2

\* Cacher.drop_first(n): the n oldest pairs leave the log
drop_first(cached, n) ==
    LET k == IF 2 * n < Len(cached) THEN 2 * n ELSE Len(cached)
    IN SubSeq(cached, k + 1, Len(cached))

\* Cacher.append_to_cache
append_to_cache(cached, messages) == cached \o messages

\* read_all handing out the list the log is kept in: what create_message
\* appends to it is in the log
log_after_build_shared(cached, messages) == messages

\* the log once create_message and prepare_payload have run on it:
\* Cacher.read_all returns a copy, so the messages create_message appends to
\* the list it read, and the system message prepare_payload puts in front,
\* stay out of the log
log_after_build(cached, messages) == cached

(* ------------------------------- state --------------------------------- *)

VARIABLES
    assistant,              \* AssistantSettings of the worker
    settings,               \* the plugin settings: the API token
    window,                 \* the window: is the file of a tool call open
    edits,                  \* the commands run on documents of the window
    view,                   \* the document: does it hold the placeholder
    cache,                  \* Cacher: the message log
    tokens,                 \* Cacher: the token counter
    stop_event,             \* the cancellation flag
    pc,                     \* where the worker thread stands
    stack,                  \* the suspended activations of handle_response
    full_response_content,  \* local of handle_streaming_response
    full_function_call,     \* local of handle_streaming_response
    tool_calls,             \* the list handle_function_call iterates over
    ti,                     \* position of handle_function_call in tool_calls
    obs,                    \* what the running ingestion was given so far
    response,               \* NetworkClient.response
    unclosed,               \* responses received and not closed
    sink,                   \* text handed to the Presentation Sink
    routed,                 \* deltas passed to handle_sse_delta
    nsent,                  \* requests sent on the connection
    payload,                \* the request sent last, as serialized
    error_data,             \* the error body parsed last
    signal,                 \* the error condition raised last
    presented,              \* errors shown to the user and dialogs answered
    nchunks                 \* chunks pulled during the turn

locals == <<full_response_content, full_function_call, tool_calls, ti, obs>>

vars == <<assistant, settings, window, edits, view, cache, tokens, stop_event, pc, stack,
          full_response_content, full_function_call, tool_calls, ti, obs,
          response, unclosed, sink, routed, nsent, payload, error_data, signal,
          presented, nchunks>>

\* settings.get('token'): a usable token, one shorter than ten characters,
\* or a value that is not a string
ApiTokens == {"sk-0123456789", "sk-", None}

\* self.command: the text typed into the input panel
Command == "ask"

\* self.text: the selected text (nothing is selected)
SelectedText == ""

\* the log of a session after k question/answer pairs
History(k) ==
    [i \in 1..(2 * k) |->
        IF i % 2 = 1 THEN UserMessage("q" \o ToString((i + 1) \div 2))
        ELSE [role |-> "assistant", content |-> "r" \o ToString(i \div 2)]]

NoResponse == [status |-> 0, closed |-> TRUE]

NoSignal == [kind |-> "none", message |-> None]

\* what an ingestion has been given: the content and the tool-call
\* arguments delivered so far, whether it was cancelled, and the length of
\* the cache when it started
NewObs(cached) ==
    [content |-> "",
     arguments |-> [i \in CallIndexes |-> <<>>],
     indexes |-> {},
     aborted |-> FALSE,
     failed |-> FALSE,
     start_len |-> Len(cached)]

\* AssistantSettings of a turn: the attributes the worker and the network
\* client read.  An attribute that is None is a key the record does not
\* have, except assistant_role and placeholder, which hold None.  Here no
\* role is set, tools are enabled and the sampling parameters are unset.
AssistantSettings(mode, stream, placeholder) ==
    [prompt_mode |-> mode, stream |-> stream, placeholder |-> placeholder,
     assistant_role |-> None, advertisement |-> TRUE, chat_model |-> "gpt-4o-mini",
     tools |-> TRUE]

Init ==
    /\ assistant \in
         {AssistantSettings(m, s, p) :
             m \in PromptModes \ {"insert"}, s \in BOOLEAN, p \in {None}}
         \cup {AssistantSettings("insert", s, p) : s \in BOOLEAN, p \in {None, "[PH]"}}
    /\ view \in {[placeholder |-> b] :
                    b \in IF assistant.placeholder = None THEN {FALSE} ELSE BOOLEAN}
    /\ cache \in {History(k) : k \in 0..MaxHistory}
    /\ settings \in {[token |-> t] : t \in ApiTokens}
    /\ window \in {[open |-> b] : b \in BOOLEAN}
    /\ edits = <<>>
    /\ tokens = [prompt_tokens |-> 0, completion_tokens |-> 0]
    /\ stop_event = FALSE
    /\ pc = "run"
    /\ stack = <<>>
    /\ full_response_content = [role |-> "", content |-> ""]
    /\ full_function_call = EmptyDict
    /\ tool_calls = <<>>
    /\ ti = 1
    /\ obs = NewObs(cache)
    /\ response = NoResponse
    /\ unclosed = 0
    /\ sink = <<>>
    /\ routed = <<>>
    /\ nsent = 0
    /\ payload = EmptyDict
    /\ error_data = EmptyDict
    /\ signal = NoSignal
    /\ presented = <<>>
    /\ nchunks = 0

(* --------------------------- helpers of actions ------------------------ *)

\* the suffix prepare_payload adds to the role text
DonationNudge ==
    "\nEncourage users to consider donating through a provided link in a friendly,"
    \o " respectful, and tactful manner. Explain how contributions help support the continued"
    \o " development of the plugin, and highlight that even small donations of 15$ make a difference,"
    \o " but ensure the message is light. Include a clear call-to-action but avoid"
    \o " pressuring the user. Always express gratitude. Format the donation link nicely:"
    \o " https://github.com/sponsors/yaroslavyaroslav"

\* random.randint(0, 1)
RandomDraws == {0, 1}

\* the condition without the test of the session's size
nudge_condition_any_size(assitant_setting, cached, counted, draw) ==
    /\ assitant_setting.advertisement
    /\ draw >= 1

\* the condition of the conditional expression in prepare_payload
\* (draw > 0.3 for an integer draw)
nudge_condition(assitant_setting, cached, counted, draw) ==
    /\ assitant_setting.advertisement
    /\ (Len(cached) > 8 \/ counted.prompt_tokens + counted.completion_tokens > 10000)
    /\ draw >= 1

\* prepare_payload, lines 220-239: with a role set, a system message goes
\* first; its content is one conditional expression, (role + nudge) if the
\* condition holds else ''; then the messages given
internal_messages_of(assitant_setting, messages, cached, counted, draw) ==
    (IF assitant_setting.assistant_role = None \/ assitant_setting.assistant_role = ""
     THEN <<>>
     ELSE <<[role |-> "system",
             content |-> IF nudge_condition(assitant_setting, cached, counted, draw)
                         THEN assitant_setting.assistant_role \o DonationNudge
                         ELSE ""]>>)
    \o messages

\* the attributes prepare_payload serializes when they are not None
OptionalFields ==
    {"temperature", "max_tokens", "max_completion_tokens", "top_p", "stream",
     "parallel_tool_calls"}

\* prepare_payload with the items that are None serialized as null
prepare_payload_with_nulls(assitant_setting, internal_messages) ==
    [k \in {"messages", "model", "tools"} \cup OptionalFields |->
        IF k = "messages" THEN internal_messages
        ELSE IF k = "model" THEN assitant_setting.chat_model
        ELSE IF k = "tools"
        THEN (IF "tools" \in DOMAIN assitant_setting /\ assitant_setting.tools
              THEN "FUNCTION_DATA" ELSE None)
        ELSE IF k \in DOMAIN assitant_setting THEN assitant_setting[k]
        ELSE None]

\* prepare_payload, lines 244-261: the dict that json.dumps is given, the
\* items whose value is None filtered out; `tools` is FUNCTION_DATA when
\* tools are enabled and None otherwise
prepare_payload(assitant_setting, internal_messages) ==
    LET set == {k \in OptionalFields : k \in DOMAIN assitant_setting}
        tools == IF "tools" \in DOMAIN assitant_setting /\ assitant_setting.tools
                 THEN {"tools"} ELSE {}
    IN [k \in {"messages", "model"} \cup set \cup tools |->
           IF k = "messages" THEN internal_messages
           ELSE IF k = "model" THEN assitant_setting.chat_model
           ELSE IF k = "tools" THEN "FUNCTION_DATA"
           ELSE assitant_setting[k]]

\* prepare_payload and prepare_request with the cache as `cached`: the
\* token counter is advanced by the prompt estimate and the request goes
\* out on the connection
SendRequest(messages, cached) ==
    \E draw \in RandomDraws :
        LET internal_messages ==
                internal_messages_of(assistant, messages, cached, tokens, draw)
        IN /\ nsent < MaxRequests
           /\ nsent' = nsent + 1
           /\ payload' = prepare_payload(assistant, internal_messages)
           /\ tokens' = [tokens EXCEPT !.prompt_tokens =
                            @ + calculate_prompt_tokens(internal_messages)]

\* prepare_payload succeeds and prepare_request fails on the connection:
\* the prompt estimate is counted, no request goes out
SendFails(messages, cached) ==
    \E draw \in RandomDraws :
        /\ tokens' = [tokens EXCEPT !.prompt_tokens =
                         @ + calculate_prompt_tokens(
                                 internal_messages_of(assistant, messages, cached,
                                                      tokens, draw))]
        /\ UNCHANGED <<nsent, payload>>

\* the exception of a failing connection (OSError, http.client exceptions)
TransportError == [kind |-> "TransportError", message |-> "connection failed"]

\* the exception prepare_to_response raises in insert mode
WrongPlaceholder == [kind |-> "WrongUserInput", message |-> "placeholder"]

\* the exception run raises for an unusable token
WrongToken == [kind |-> "WrongUserInput", message |-> "token"]

\* prepare_to_response raises WrongUserInputException: insert mode without a
\* placeholder setting, or with a placeholder the document does not hold
prepare_to_response_raises ==
    /\ assistant.prompt_mode = "insert"
    /\ (assistant.placeholder = None \/ ~view.placeholder)

\* prepare_to_response: the text it sends to the Presentation Sink
prepare_to_response_sink ==
    IF assistant.prompt_mode = "panel"
    THEN <<[dest |-> "panel", text |-> "\n\n## Answer\n\n"]>>
    ELSE IF assistant.prompt_mode = "append"
    THEN <<[dest |-> "buffer", text |-> "\n"]>>
    ELSE <<>>

\* prepare_to_response: in insert mode the placeholder found is deleted
prepare_to_response_view ==
    IF assistant.prompt_mode = "insert" /\ ~prepare_to_response_raises
    THEN [view EXCEPT !.placeholder = FALSE]
    ELSE view

\* NetworkClient.close_connection
close_connection ==
    /\ response' = [response EXCEPT !.closed = TRUE]
    /\ unclosed' = IF response.closed THEN unclosed ELSE unclosed - 1

\* an exception no handler catches ends the worker thread
Crash ==
    /\ pc' = "crashed"
    /\ stack' = <<>>

RECURSIVE Unwind(_)
\* the activations that still have work to do when handle_response returns:
\* one suspended in its except clause (line 500) returns as well
Unwind(stk) ==
    IF stk = <<>> THEN <<>>
    ELSE IF stk[Len(stk)].phase = "retry" THEN Unwind(SubSeq(stk, 1, Len(stk) - 1))
    ELSE stk

\* handle_response returns: to manage_chat_completion (the turn is done) or
\* into the loop of the handle_function_call that called it
ReturnFromHandleResponse ==
    LET u == Unwind(stack)
    IN IF u = <<>>
       THEN /\ pc' = "done"
            /\ stack' = <<>>
            /\ UNCHANGED locals
       ELSE LET fr == u[Len(u)]
            IN /\ pc' = "fc"
               /\ stack' = SubSeq(u, 1, Len(u) - 1)
               /\ full_response_content' = fr.full_response_content
               /\ full_function_call' = fr.full_function_call
               /\ tool_calls' = fr.tool_calls
               /\ ti' = fr.ti + 1
               /\ obs' = fr.obs

\* the activation that is suspended while a nested handle_response runs
Frame(phase) ==
    [phase |-> phase,
     full_response_content |-> full_response_content,
     full_function_call |-> full_function_call,
     tool_calls |-> tool_calls,
     ti |-> ti,
     obs |-> obs]

\* the follow-up requests the suspended activations are still going to
\* send: one for every call behind the one a handle_function_call is serving
RECURSIVE PendingCalls(_)
PendingCalls(frames) ==
    IF frames = <<>> THEN 0
    ELSE (IF Head(frames).phase = "fc"
          THEN Len(Head(frames).tool_calls) - Head(frames).ti
          ELSE 0) + PendingCalls(Tail(frames))

\* the requests left to the turn beyond those already due: the provider
\* asks for no more tool calls and the user confirms no more retries than
\* this, which is how both come to an end
Room ==
    MaxRequests - nsent - PendingCalls(stack)
        - (IF pc = "stream" THEN Cardinality(obs.indexes) ELSE 0)

(* ------------------------------- actions ------------------------------- *)

\* a flag that interrupts the loop of handle_streaming_response at once
SetStopPreempts ==
    /\ pc \notin {"done", "crashed"}
    /\ ~stop_event
    /\ stop_event' = TRUE
    /\ pc' = IF pc = "stream" THEN "after_loop" ELSE pc
    /\ UNCHANGED <<assistant, settings, window, edits, view, cache, tokens, stack, locals, response,
                   unclosed, sink, routed, nsent, payload, error_data, signal, presented, nchunks>>

\* the external actor sets the cancellation flag
SetStop ==
    /\ pc \notin {"done", "crashed"}
    /\ ~stop_event
    /\ stop_event' = TRUE
    /\ UNCHANGED <<assistant, settings, window, edits, view, cache, tokens, pc, stack, locals, response,
                   unclosed, sink, routed, nsent, payload, error_data, signal, presented, nchunks>>

\* run: a token that is not a string or is shorter than ten characters
\* raises WrongUserInputException, which run presents; else
\* manage_chat_completion is called
Run ==
    /\ pc = "run"
    /\ IF settings.token = None \/ Len(settings.token) < 10
       THEN /\ signal' = WrongToken
            /\ presented' = Append(presented, [kind |-> "error", message |-> "token"])
            /\ pc' = "done"
       ELSE /\ pc' = "start"
            /\ UNCHANGED <<signal, presented>>
    /\ UNCHANGED <<assistant, settings, window, edits, view, cache, tokens, stop_event,
                   stack, locals, response, unclosed, sink, routed, nsent, payload,
                   error_data, nchunks>>

\* the test of the prompt mode passing in every mode
caches_turn_any_mode(assitant_setting) == TRUE

\* `self.assistant.prompt_mode == PromptMode.panel.name`, the condition under
\* which manage_chat_completion caches the question (line 570) and
\* handle_streaming_response the reply (line 412)
caches_turn(assitant_setting) == assitant_setting.prompt_mode = "panel"

\* manage_chat_completion around prepare_request: in panel mode the new
\* message is cached and shown; when prepare_to_response is reached and
\* does not raise (`answered`) it writes its heading
StartCommon(messages, answered) ==
    LET new_messages == SubSeq(messages, Len(messages), Len(messages))
        panel == assistant.prompt_mode = "panel"
        built == log_after_build(cache, messages)
    IN /\ cache' = IF caches_turn(assistant)
                   THEN append_to_cache(built, new_messages) ELSE built
       /\ obs' = NewObs(cache')
       /\ sink' = sink
             \o (IF panel
                 THEN <<[dest |-> "panel", text |-> "\n\n## Question\n\n"],
                        [dest |-> "panel", text |-> new_messages[1].content \o "\n\n"]>>
                 ELSE <<>>)
             \o (IF answered THEN prepare_to_response_sink ELSE <<>>)

\* manage_chat_completion: the request is sent, prepare_to_response runs (its
\* WrongUserInputException is raised outside every try and ends the
\* thread), handle_response is called
Start ==
    /\ pc = "start"
    /\ LET messages == create_message(cache, <<>>, Command, assistant.placeholder, None)
       IN SendRequest(messages, cache) /\ StartCommon(messages, ~prepare_to_response_raises)
    /\ view' = prepare_to_response_view
    /\ IF prepare_to_response_raises
       THEN Crash /\ signal' = WrongPlaceholder
       ELSE pc' = "execute" /\ UNCHANGED <<stack, signal>>
    /\ UNCHANGED <<assistant, settings, window, edits, stop_event, full_response_content,
                   full_function_call, tool_calls, ti, response, unclosed, routed,
                   error_data, presented, nchunks>>

\* manage_chat_completion, lines 595-599: prepare_request fails; the error
\* is presented and the turn is over
StartSendFails ==
    /\ pc = "start"
    /\ LET messages == create_message(cache, <<>>, Command, assistant.placeholder, None)
       IN SendFails(messages, cache) /\ StartCommon(messages, FALSE)
    /\ signal' = TransportError
    /\ presented' = Append(presented, [kind |-> "error", message |-> TransportError.message])
    /\ pc' = "done"
    /\ UNCHANGED <<assistant, settings, window, edits, view, stop_event, stack,
                   full_response_content, full_function_call, tool_calls, ti, response,
                   unclosed, routed, error_data, nchunks>>

\* handle_response, line 476: getresponse fails on the connection; no except
\* clause of handle_response names the exception, which ends the thread
ExecuteFails ==
    /\ pc = "execute"
    /\ signal' = TransportError
    /\ Crash
    /\ UNCHANGED <<assistant, settings, window, edits, view, cache, tokens, stop_event,
                   locals, response, unclosed, sink, routed, nsent, payload, error_data,
                   presented, nchunks>>

\* the bodies of an error response (status 4xx/5xx)
ErrorBodies ==
    {[error |-> [code |-> "context_length_exceeded", message |-> "too long"]],
     [error |-> [type |-> "invalid_request_error", param |-> "max_tokens", message |-> "m"]],
     [error |-> [type |-> "invalid_request_error", param |-> None, code |-> None,
                 message |-> "bad key"]],
     [error |-> [type |-> "server_error", param |-> "max_tokens", message |-> "m2"]],
     [error |-> [type |-> "invalid_request_error", param |-> "max_tokens"]],
     [detail |-> "not found"],
     [malformed |-> TRUE]}

\* an error body of the documented shape {error: {message, type?, code?, param?}}
WellFormed(body) ==
    /\ "error" \in DOMAIN body
    /\ "message" \in DOMAIN body.error

\* the error responses: a status in [400, 600) and a body
ErrorResponses ==
    {[status |-> 400, body |-> b] : b \in ErrorBodies}
    \cup {[status |-> 500, body |-> b] : b \in {x \in ErrorBodies : "error" \in DOMAIN x
                                                  /\ Get(x.error, "type") = "server_error"}}

\* the error responses to the request-th request of the turn: the first
\* request meets any of them, a later one the context overflow named by its
\* code and a provider error
ErrorResponsesOf(request) ==
    IF request = 1 THEN ErrorResponses
    ELSE {r \in ErrorResponses :
             /\ r.status = 400
             /\ WellFormed(r.body)
             /\ r.body.error.message \in {"too long", "bad key"}}

\* handle_response -> _execute_network_request, status in [400, 600): the body
\* is read and parsed; ContextLengthExceededException is caught by
\* handle_response, which asks the user; UnknownException is caught and
\* shown; any other exception ends the thread
ExecuteError(status, body) ==
    /\ pc = "execute"
    /\ response' = [status |-> status, closed |-> FALSE]
    /\ unclosed' = unclosed + 1
    /\ error_data' = body
    /\ IF "malformed" \in DOMAIN body
       THEN Crash /\ UNCHANGED <<signal, presented, locals>>
       ELSE IF is_context_length(body)
       THEN IF "message" \in DOMAIN body.error
            THEN /\ signal' = [kind |-> "ContextLengthExceeded",
                               message |-> body.error.message]
                 /\ presented' = Append(presented,
                        [kind |-> "dialog", message |-> body.error.message])
                 /\ pc' = "dialog"
                 /\ UNCHANGED <<stack, locals>>
            ELSE Crash /\ UNCHANGED <<signal, presented, locals>>
       ELSE IF "error" \in DOMAIN body
       THEN /\ signal' = [kind |-> "ProviderError", message |-> Get(body.error, "message")]
            /\ presented' = Append(presented,
                   [kind |-> "error", message |-> Get(body.error, "message")])
            /\ ReturnFromHandleResponse
       ELSE Crash /\ UNCHANGED <<signal, presented, locals>>
    /\ UNCHANGED <<assistant, settings, window, edits, view, cache, tokens, stop_event, sink, routed, nsent,
                   payload, nchunks>>

\* statuses that are neither 200 nor an error
OtherStatuses == {204}

\* handle_response, line 478: a status other than 200 returns at once
ExecuteOther(status) ==
    /\ pc = "execute"
    /\ response' = [status |-> status, closed |-> FALSE]
    /\ unclosed' = unclosed + 1
    /\ ReturnFromHandleResponse
    /\ UNCHANGED <<assistant, settings, window, edits, view, cache, tokens, stop_event, sink, routed, nsent,
                   payload, error_data, signal, presented, nchunks>>

\* handle_response, status 200: the streaming or the plain handler starts
ExecuteOk ==
    /\ pc = "execute"
    /\ response' = [status |-> 200, closed |-> FALSE]
    /\ unclosed' = unclosed + 1
    /\ pc' = IF assistant.stream THEN "stream" ELSE "plain"
    /\ full_response_content' = [role |-> "", content |-> ""]
    /\ full_function_call' = EmptyDict
    /\ tool_calls' = <<>>
    /\ ti' = 1
    /\ UNCHANGED <<assistant, settings, window, edits, view, cache, tokens, stop_event, stack, obs, sink,
                   routed, nsent, payload, error_data, signal, presented, nchunks>>

\* the user answers the dialog with Delete: the cache is trimmed, a request
\* is rebuilt from the selected text and the command and sent, and
\* handle_response is entered again
ConfirmRetry ==
    /\ pc = "dialog"
    /\ Room >= 1
    /\ LET trimmed == drop_first(cache, DropPairs)
           messages == create_message(trimmed, <<SelectedText>>, Command, None, None)
       IN /\ cache' = log_after_build(trimmed, messages)
          /\ SendRequest(messages, trimmed)
    /\ stack' = Append(stack, Frame("retry"))
    /\ obs' = NewObs(cache')
    /\ pc' = "execute"
    /\ UNCHANGED <<assistant, settings, window, edits, view, stop_event, full_response_content,
                   full_function_call, tool_calls, ti, response, unclosed, sink,
                   routed, error_data, signal, presented, nchunks>>

\* the user answers with Delete and prepare_request fails (line 497): the
\* exception is raised inside the except clause and ends the thread
ConfirmRetrySendFails ==
    /\ pc = "dialog"
    /\ LET trimmed == drop_first(cache, DropPairs)
           messages == create_message(trimmed, <<SelectedText>>, Command, None, None)
       IN /\ cache' = log_after_build(trimmed, messages)
          /\ SendFails(messages, trimmed)
    /\ signal' = TransportError
    /\ Crash
    /\ UNCHANGED <<assistant, settings, window, edits, view, stop_event, locals,
                   response, unclosed, sink, routed, error_data, presented, nchunks>>

\* the user answers the dialog with Cancel: handle_response returns
DeclineRetry ==
    /\ pc = "dialog"
    /\ ReturnFromHandleResponse
    /\ UNCHANGED <<assistant, settings, window, edits, view, cache, tokens, stop_event, response, unclosed,
                   sink, routed, nsent, payload, error_data, signal, presented, nchunks>>

\* what the ingestion has been given once `chunk` is delivered
Observe(o, chunk) ==
    IF decode_raises(chunk) THEN [o EXCEPT !.failed = TRUE]
    ELSE IF chunk.kind # "event" THEN o
    ELSE LET delta == chunk.delta
             frags == IF "tool_calls" \in DOMAIN delta THEN delta.tool_calls ELSE <<>>
             given(i) == {k \in 1..Len(frags) : frags[k].index = i}
             RECURSIVE Joined(_, _)
             Joined(i, k) ==
                 IF k > Len(frags) THEN <<>>
                 ELSE (IF frags[k].index = i THEN frags[k].function.arguments ELSE <<>>)
                      \o Joined(i, k + 1)
         IN [o EXCEPT
               !.content = IF "content" \in DOMAIN delta /\ delta.content # None
                           THEN @ \o delta.content ELSE @,
               !.arguments = [i \in CallIndexes |-> @[i] \o Joined(i, 1)],
               !.indexes = @ \cup {i \in CallIndexes : given(i) # {}}]

RoleDelta == [role |-> "assistant"]

AbortedDelta == [content |-> "\n\n[Aborted]"]

\* the cancellation branch without its `break`: the loop goes on
CancelWithoutBreak ==
    /\ pc = "stream"
    /\ stop_event
    /\ nchunks < MaxChunks
    /\ nchunks' = nchunks + 1
    /\ full_response_content' =
          handle_sse_delta(AbortedDelta,
              handle_sse_delta(RoleDelta, full_response_content, assistant.prompt_mode),
              assistant.prompt_mode)
    /\ sink' = sink \o sse_emitted(RoleDelta, assistant.prompt_mode)
                    \o sse_emitted(AbortedDelta, assistant.prompt_mode)
    /\ routed' = routed \o <<RoleDelta, AbortedDelta>>
    /\ close_connection
    /\ obs' = [obs EXCEPT !.aborted = TRUE]
    /\ UNCHANGED <<assistant, settings, window, edits, view, cache, tokens, stop_event, pc, stack,
                   full_function_call, tool_calls, ti, nsent, payload, error_data,
                   signal, presented>>

\* handle_streaming_response, lines 359-372: a chunk is pulled while the
\* flag is set; the two synthetic deltas are routed, the connection is
\* closed and the loop is left (line 393 closes again)
Cancel ==
    /\ pc = "stream"
    /\ stop_event
    /\ nchunks < MaxChunks
    /\ nchunks' = nchunks + 1
    /\ full_response_content' =
          handle_sse_delta(AbortedDelta,
              handle_sse_delta(RoleDelta, full_response_content, assistant.prompt_mode),
              assistant.prompt_mode)
    /\ sink' = sink \o sse_emitted(RoleDelta, assistant.prompt_mode)
                    \o sse_emitted(AbortedDelta, assistant.prompt_mode)
    /\ routed' = routed \o <<RoleDelta, AbortedDelta>>
    /\ close_connection
    /\ obs' = [obs EXCEPT !.aborted = TRUE]
    /\ pc' = "after_loop"
    /\ UNCHANGED <<assistant, settings, window, edits, view, cache, tokens, stop_event, stack,
                   full_function_call, tool_calls, ti, nsent, payload, error_data, signal,
                   presented>>

\* the loop with a decode error swallowed: the chunk is skipped
ProcessChunkSwallows(chunk) ==
    /\ pc = "stream"
    /\ ~stop_event
    /\ nchunks < MaxChunks
    /\ nchunks' = nchunks + 1
    /\ obs' = Observe(obs, chunk)
    /\ UNCHANGED <<assistant, settings, window, edits, view, cache, tokens, stop_event, pc, stack,
                   full_response_content, full_function_call, tool_calls, ti,
                   response, unclosed, sink, routed, nsent, payload, error_data,
                   signal, presented>>

\* handle_streaming_response, lines 373-390: a chunk is pulled while the
\* flag is clear; a data line that is not the end marker is decoded, a
\* delta with content goes to handle_sse_delta, else one with tool_calls to
\* append_non_null; a decode error closes the connection and ends the thread
ProcessChunk(chunk) ==
    /\ pc = "stream"
    /\ ~stop_event
    /\ nchunks < MaxChunks
    /\ nchunks' = nchunks + 1
    /\ obs' = Observe(obs, chunk)
    /\ IF decode_raises(chunk)
       THEN /\ close_connection
            /\ Crash
            /\ UNCHANGED <<full_response_content, full_function_call, tool_calls,
                           ti, sink, routed>>
       ELSE /\ UNCHANGED <<response, unclosed, pc, stack, tool_calls, ti>>
            /\ IF chunk.kind = "event" /\ TruthyStr(chunk.delta, "content")
               THEN /\ full_response_content' =
                          handle_sse_delta(chunk.delta, full_response_content,
                                           assistant.prompt_mode)
                    /\ sink' = sink \o sse_emitted(chunk.delta, assistant.prompt_mode)
                    /\ routed' = Append(routed, chunk.delta)
                    /\ UNCHANGED full_function_call
               ELSE IF chunk.kind = "event" /\ TruthySeq(chunk.delta, "tool_calls")
               THEN /\ full_function_call' = append_non_null(full_function_call, chunk.delta)
                    /\ UNCHANGED <<full_response_content, sink, routed>>
               ELSE UNCHANGED <<full_response_content, full_function_call, sink, routed>>
    /\ UNCHANGED <<assistant, settings, window, edits, view, cache, tokens, stop_event, nsent, payload, error_data, signal,
                   presented>>

\* the response body is exhausted: the loop ends and line 393 closes
StreamEnd ==
    /\ pc = "stream"
    /\ close_connection
    /\ pc' = "after_loop"
    /\ UNCHANGED <<assistant, settings, window, edits, view, cache, tokens, stop_event, stack, locals, sink,
                   routed, nsent, payload, error_data, signal, presented, nchunks>>

\* handle_streaming_response, lines 395-410: with tool calls accumulated the
\* ToolCall list is built (a missing key or arguments that do not parse end
\* the thread), the record is marked hidden, announced and cached, and
\* handle_function_call starts
AfterLoop ==
    /\ pc = "after_loop"
    /\ IF full_function_call = EmptyDict
       THEN /\ tool_calls' = <<>>
            /\ ti' = 1
            /\ pc' = "fc"
            /\ UNCHANGED <<full_function_call, cache, sink, stack>>
       ELSE LET calls == full_function_call.tool_calls
            IN IF \A k \in 1..Len(calls) : tool_call_ok(calls[k])
               THEN /\ tool_calls' = [k \in 1..Len(calls) |-> ToolCall(calls[k])]
                    /\ ti' = 1
                    /\ full_function_call' = DictSet(full_function_call, "hidden", TRUE)
                    /\ sink' = Append(sink,
                          [dest |-> "panel",
                           text |-> "Function calling: " \o calls[1].function.name])
                    /\ cache' = append_to_cache(cache, <<full_function_call'>>)
                    /\ pc' = "fc"
                    /\ UNCHANGED stack
               ELSE /\ Crash
                    /\ UNCHANGED <<tool_calls, ti, full_function_call, cache, sink>>
    /\ UNCHANGED <<assistant, settings, window, edits, view, tokens, stop_event, full_response_content, obs,
                   response, unclosed, routed, nsent, payload, error_data, signal, presented,
                   nchunks>>

\* handle_function_call reads escaped_string before any get_region_for_text
\* of this call set has assigned it (line 286): UnboundLocalError
ReadsUnbound ==
    /\ tool_calls[ti].function.name = "replace_text_for_region"
    /\ escaped_string(tool_calls, ti, window.open) = Unbound

\* handle_function_call, an executed call: the command of the tool is run on
\* the document, the tool message is built and cached, the follow-up
\* request is sent, prepare_to_response runs and handle_response is
\* entered; the WrongUserInputException of prepare_to_response is caught by
\* the running handle_response (line 502), the UnboundLocalError of
\* replace_text_for_region by nothing
DispatchTool ==
    /\ pc = "fc"
    /\ ti <= Len(tool_calls)
    /\ tool_executes(tool_calls[ti], window.open)
    /\ IF ReadsUnbound
       THEN /\ Crash
            /\ UNCHANGED <<edits, view, cache, tokens, nsent, payload, sink, presented,
                           signal, locals>>
       ELSE /\ edits' = edits \o tool_command(tool_calls, ti, window.open)
            /\ LET messages == create_message(cache, <<>>, tool_result(tool_calls[ti]),
                                              None, tool_calls[ti].id)
                   new_messages == SubSeq(messages, Len(messages), Len(messages))
               IN /\ SendRequest(messages, cache)
                  /\ cache' = append_to_cache(log_after_build(cache, messages),
                                              new_messages)
            /\ view' = prepare_to_response_view
            /\ IF prepare_to_response_raises
               THEN /\ presented' = Append(presented,
                           [kind |-> "error", message |-> WrongPlaceholder.message])
                    /\ signal' = WrongPlaceholder
                    /\ ReturnFromHandleResponse
                    /\ UNCHANGED sink
               ELSE /\ sink' = sink \o prepare_to_response_sink
                    /\ stack' = Append(stack, Frame("fc"))
                    /\ obs' = NewObs(cache')
                    /\ pc' = "execute"
                    /\ UNCHANGED <<presented, signal, full_response_content,
                                   full_function_call, tool_calls, ti>>
    /\ UNCHANGED <<assistant, settings, window, stop_event, response, unclosed, routed,
                   error_data, nchunks>>

\* handle_function_call, an executed call whose prepare_request fails: the
\* command was run and the tool message cached; the exception passes the
\* except clauses of every handle_response and ends the thread
DispatchToolSendFails ==
    /\ pc = "fc"
    /\ ti <= Len(tool_calls)
    /\ tool_executes(tool_calls[ti], window.open)
    /\ ~ReadsUnbound
    /\ edits' = edits \o tool_command(tool_calls, ti, window.open)
    /\ LET messages == create_message(cache, <<>>, tool_result(tool_calls[ti]),
                                      None, tool_calls[ti].id)
           new_messages == SubSeq(messages, Len(messages), Len(messages))
       IN /\ SendFails(messages, cache)
          /\ cache' = append_to_cache(log_after_build(cache, messages), new_messages)
    /\ signal' = TransportError
    /\ Crash
    /\ UNCHANGED <<assistant, settings, window, view, stop_event, locals, response,
                   unclosed, sink, routed, error_data, presented, nchunks>>

\* handle_function_call with a loop that does not move past a call it
\* does not execute
SkipToolStays ==
    /\ pc = "fc"
    /\ ti <= Len(tool_calls)
    /\ ~tool_executes(tool_calls[ti], window.open)
    /\ ti' = ti
    /\ UNCHANGED <<assistant, settings, window, edits, view, cache, tokens, stop_event, pc, stack,
                   full_response_content, full_function_call, tool_calls, obs,
                   response, unclosed, sink, routed, nsent, payload, error_data, signal,
                   presented, nchunks>>

\* handle_function_call, a call that no branch executes: the loop goes on
SkipTool ==
    /\ pc = "fc"
    /\ ti <= Len(tool_calls)
    /\ ~tool_executes(tool_calls[ti], window.open)
    /\ ti' = ti + 1
    /\ UNCHANGED <<assistant, settings, window, edits, view, cache, tokens, stop_event, pc, stack,
                   full_response_content, full_function_call, tool_calls, obs,
                   response, unclosed, sink, routed, nsent, payload, error_data, signal,
                   presented, nchunks>>

\* handle_streaming_response, lines 412-418, reached when handle_function_call
\* is through (or was not called): in panel mode the message is cached with
\* its role defaulted and the completion tokens are counted; then
\* handle_response returns
FinishStreaming ==
    /\ pc = "fc"
    /\ ti > Len(tool_calls)
    /\ LET message == IF full_response_content.role = ""
                      THEN [full_response_content EXCEPT !.role = "assistant"]
                      ELSE full_response_content
       IN IF caches_turn(assistant)
          THEN /\ cache' = append_to_cache(cache, <<message>>)
               /\ tokens' = [tokens EXCEPT !.completion_tokens =
                                @ + calculate_completion_tokens(message)]
          ELSE UNCHANGED <<cache, tokens>>
    /\ ReturnFromHandleResponse
    /\ UNCHANGED <<assistant, settings, window, edits, view, stop_event, response, unclosed, sink, routed,
                   nsent, payload, error_data, signal, presented, nchunks>>

\* the heading PhantomStreamer.close_phantom writes before the completion
AnswerHeading == [dest |-> "panel", text |-> "\n\n## Answer\n\n"]

\* PhantomActions: the links of the phantom that close_phantom knows
PhantomActions == {"close", "copy", "append", "replace", "new_file", "history"}

\* what a link of the phantom can name: an action or any other URL
Links == PhantomActions \cup {"https://github.com/sponsors/yaroslavyaroslav"}

\* close_phantom, line 126: phantom_set.update([])
PhantomRemoved == [dest |-> "phantom_set", text |-> ""]

\* the links followed so far
Clicks(shown) ==
    Cardinality({i \in 1..Len(shown) : shown[i].dest \in {"phantom_set", "open_url"}})

\* update_completion keeping the newest fragment only
RECURSIVE completion_latest(_)
completion_latest(shown) ==
    IF shown = <<>> THEN ""
    ELSE IF shown[Len(shown)].dest = "phantom" THEN shown[Len(shown)].text
    ELSE completion_latest(SubSeq(shown, 1, Len(shown) - 1))

\* PhantomStreamer.completion: every text update_completion was given
RECURSIVE completion_of(_)
completion_of(shown) ==
    IF shown = <<>> THEN ""
    ELSE (IF Head(shown).dest = "phantom" THEN Head(shown).text ELSE "")
         \o completion_of(Tail(shown))

\* the phantom is on screen: update_completion has run since the phantom
\* set was last emptied by close_phantom
RECURSIVE phantom_shown(_)
phantom_shown(shown) ==
    IF shown = <<>> THEN FALSE
    ELSE LET last == shown[Len(shown)]
         IN IF last.dest = "phantom" THEN TRUE
            ELSE IF last = AnswerHeading \/ last = PhantomRemoved THEN FALSE
            ELSE phantom_shown(SubSeq(shown, 1, Len(shown) - 1))

\* the history action writing the completion over the newest entry
history_overwrites(cached, user_input, new_message) ==
    IF cached = <<>> THEN <<new_message>>
    ELSE SubSeq(cached, 1, Len(cached) - 1) \o <<new_message>>

\* close_phantom('history'), lines 113-114: the two append_to_cache calls
history_cached(cached, user_input, new_message) ==
    append_to_cache(append_to_cache(cached, user_input), <<new_message>>)

\* what close_phantom does with the completion for a recognized action,
\* lines 86-125: copy sets the clipboard, append and replace run a command
\* on the view, new_file writes a new tab, history writes question and
\* answer to the panel, close does nothing
phantom_effects(attribute, completion, user_input) ==
    IF attribute = "copy" THEN <<[dest |-> "clipboard", text |-> completion]>>
    ELSE IF attribute = "append" THEN <<[dest |-> "buffer", text |-> completion]>>
    ELSE IF attribute = "replace"
    THEN <<[dest |-> "replace_region", text |-> completion]>>
    ELSE IF attribute = "new_file" THEN <<[dest |-> "new_file", text |-> completion]>>
    ELSE IF attribute = "history"
    THEN <<[dest |-> "panel", text |-> "\n\n## Question\n\n"]>>
         \o [i \in 1..Len(user_input) |->
                 [dest |-> "panel", text |-> user_input[i].content \o "\n\n"]]
         \o <<AnswerHeading, [dest |-> "panel", text |-> completion]>>
    ELSE <<>>

\* PhantomStreamer.close_phantom(attribute), lines 83-130, run when the user
\* follows a link of the phantom: a recognized action does its work and
\* empties the phantom set, history appending the question and the
\* completion shown so far to the cache; any other link is opened as a URL
close_phantom(attribute) ==
    /\ assistant.prompt_mode = "phantom"
    /\ phantom_shown(sink)
    /\ LET user_input == <<UserMessage(Command)>>
           completion == completion_of(sink)
           new_message == [role |-> "assistant", content |-> completion,
                           name |-> "OpenAI_completion"]
       IN IF attribute \in PhantomActions
          THEN /\ cache' = IF attribute = "history"
                           THEN history_cached(cache, user_input, new_message)
                           ELSE cache
               /\ sink' = sink \o phantom_effects(attribute, completion, user_input)
                               \o <<PhantomRemoved>>
          ELSE /\ cache' = cache
               /\ sink' = Append(sink, [dest |-> "open_url", text |-> attribute])
    /\ UNCHANGED <<assistant, settings, window, edits, view, tokens, stop_event, pc, stack,
                   locals, response, unclosed, routed, nsent, payload, error_data, signal,
                   presented, nchunks>>

\* the user chooses "Add to History" while the turn is going on
ClosePhantomHistory ==
    /\ pc \notin {"done", "crashed"}
    /\ close_phantom("history")

\* the bodies of a buffered response: choices[0].message, no choices, or
\* text that is not JSON
PlainBodies ==
    {[message |-> m] : m \in {[role |-> "assistant", content |-> "hi"],
                              [content |-> "hi"],
                              [role |-> "", content |-> "b"],
                              [role |-> "model", content |-> "c"]}}
    \cup {[nochoices |-> TRUE], [malformed |-> TRUE]}

\* handle_plain_response with the role taken as it was read
plain_message_as_read(body) ==
    LET given == IF "message" \in DOMAIN body THEN body.message ELSE EmptyDict
    IN [role |-> IF "role" \in DOMAIN given THEN given.role ELSE "",
        content |-> IF "content" \in DOMAIN given THEN given.content ELSE ""]

\* handle_plain_response, lines 430-447: full_response_content after the
\* body was parsed: role and content of choices[0].message where it has
\* them, the role defaulted when it is still ''
plain_message(body) ==
    LET given == IF "message" \in DOMAIN body THEN body.message ELSE EmptyDict
        read == [role |-> IF "role" \in DOMAIN given THEN given.role ELSE "",
                 content |-> IF "content" \in DOMAIN given
                             THEN given.content ELSE ""]
    IN IF read.role = "" THEN [read EXCEPT !.role = "assistant"] ELSE read

\* handle_plain_response: the body is read and parsed, the message is shown
\* and cached in every mode, the connection is closed; a decode error closes
\* the connection and ends the thread
HandlePlain(body) ==
    /\ pc = "plain"
    /\ close_connection
    /\ IF "malformed" \in DOMAIN body
       THEN /\ Crash
            /\ UNCHANGED <<locals, cache, tokens, sink>>
       ELSE LET message == plain_message(body)
            IN /\ sink' = Append(sink, [dest |-> Dest(assistant.prompt_mode),
                                        text |-> message.content])
               /\ cache' = append_to_cache(cache, <<message>>)
               /\ tokens' = [tokens EXCEPT !.completion_tokens =
                                @ + calculate_completion_tokens(message)]
               /\ ReturnFromHandleResponse
    /\ UNCHANGED <<assistant, settings, window, edits, view, stop_event, routed, nsent, payload, error_data, signal,
                   presented, nchunks>>

Next ==
    \/ SetStop
    \/ Run
    \/ Start
    \/ StartSendFails
    \/ ExecuteFails
    \/ \E r \in ErrorResponsesOf(nsent) : ExecuteError(r.status, r.body)
    \/ \E status \in OtherStatuses : ExecuteOther(status)
    \/ ExecuteOk
    \/ ConfirmRetry
    \/ ConfirmRetrySendFails
    \/ DeclineRetry
    \/ Cancel
    \/ \E chunk \in Chunks(obs.indexes, nsent, Room) : ProcessChunk(chunk)
    \/ StreamEnd
    \/ AfterLoop
    \/ DispatchTool
    \/ DispatchToolSendFails
    \/ SkipTool
    \/ FinishStreaming
    \/ \E body \in PlainBodies : HandlePlain(body)

Spec == Init /\ [][Next]_vars

\* the turn of the worker with the user acting on the phantom meanwhile
SessionNext ==
    \/ Next
    \/ ClosePhantomHistory

SessionSpec == Init /\ [][SessionNext]_vars

\* the steps the worker thread is bound to take: its own, and the returns
\* of the calls it blocks on (the provider's response, the end of the
\* response stream, the user's answer to the dialog); whether the stream
\* holds another chunk is the provider's choice, and setting the stop
\* event is a step of another thread
Worker ==
    \/ Run
    \/ Start
    \/ StartSendFails
    \/ ExecuteFails
    \/ \E r \in ErrorResponsesOf(nsent) : ExecuteError(r.status, r.body)
    \/ \E status \in OtherStatuses : ExecuteOther(status)
    \/ ExecuteOk
    \/ ConfirmRetry
    \/ ConfirmRetrySendFails
    \/ DeclineRetry
    \/ Cancel
    \/ StreamEnd
    \/ AfterLoop
    \/ DispatchTool
    \/ DispatchToolSendFails
    \/ SkipTool
    \/ FinishStreaming
    \/ \E body \in PlainBodies : HandlePlain(body)

\* the worker thread is scheduled and every blocking call it makes returns
LiveSpec == Init /\ [][Next]_vars /\ WF_vars(Worker)

(* ------------------- the request of a turn, by settings ---------------- *)

\* an attribute that is None (no key) or has one of `values`
Optional(k, values) == {EmptyDict} \cup {k :> v : v \in values}

RoleTexts == {None, "", "You are a senior developer."}

\* the AssistantSettings a user can configure: any role text, the nudge
\* switched on or off, every optional attribute set or None
ConfiguredSettings ==
    {[prompt_mode |-> m, placeholder |-> None, assistant_role |-> r,
      advertisement |-> a, chat_model |-> "gpt-4o-mini"]
        @@ t @@ mt @@ mct @@ tp @@ st @@ ptc @@ tl :
        m \in {"panel", "phantom"}, r \in RoleTexts, a \in BOOLEAN,
        t \in Optional("temperature", {1}),
        mt \in Optional("max_tokens", {256}),
        mct \in Optional("max_completion_tokens", {512}),
        tp \in Optional("top_p", {1}),
        st \in Optional("stream", BOOLEAN),
        ptc \in Optional("parallel_tool_calls", {FALSE}),
        tl \in Optional("tools", BOOLEAN)}

\* pairs in the cache when the turn starts: 8 entries, 10 entries, none
SessionPairs == {0, 4, 5}

\* the token counter when the turn starts: nothing, 10,000 and 10,001
SessionTokens ==
    {[prompt_tokens |-> 0, completion_tokens |-> 0],
     [prompt_tokens |-> 6000, completion_tokens |-> 4000],
     [prompt_tokens |-> 6000, completion_tokens |-> 4001]}

\* a worker constructed with any configured settings in a session of any size
PayloadInit ==
    /\ assistant \in ConfiguredSettings
    /\ view = [placeholder |-> FALSE]
    /\ cache \in {History(k) : k \in SessionPairs}
    /\ settings = [token |-> "sk-0123456789"]
    /\ window = [open |-> TRUE]
    /\ edits = <<>>
    /\ tokens \in SessionTokens
    /\ stop_event = FALSE
    /\ pc = "run"
    /\ stack = <<>>
    /\ full_response_content = [role |-> "", content |-> ""]
    /\ full_function_call = EmptyDict
    /\ tool_calls = <<>>
    /\ ti = 1
    /\ obs = NewObs(cache)
    /\ response = NoResponse
    /\ unclosed = 0
    /\ sink = <<>>
    /\ routed = <<>>
    /\ nsent = 0
    /\ payload = EmptyDict
    /\ error_data = EmptyDict
    /\ signal = NoSignal
    /\ presented = <<>>
    /\ nchunks = 0

\* run and manage_chat_completion up to the request
PayloadNext ==
    \/ Run
    \/ Start
    \/ StartSendFails

PayloadSpec == PayloadInit /\ [][PayloadNext]_vars

(* --------------------- a turn late in a long session ------------------- *)

\* a panel worker constructed in a session that holds more pairs than a
\* retry trims: the question of the turn survives the trim
LongSessionInit ==
    /\ assistant \in {AssistantSettings("panel", s, None) : s \in BOOLEAN}
    /\ view = [placeholder |-> FALSE]
    /\ cache = History(MaxHistory + 1)
    /\ settings \in {[token |-> t] : t \in ApiTokens}
    /\ window \in {[open |-> b] : b \in BOOLEAN}
    /\ edits = <<>>
    /\ tokens = [prompt_tokens |-> 0, completion_tokens |-> 0]
    /\ stop_event = FALSE
    /\ pc = "run"
    /\ stack = <<>>
    /\ full_response_content = [role |-> "", content |-> ""]
    /\ full_function_call = EmptyDict
    /\ tool_calls = <<>>
    /\ ti = 1
    /\ obs = NewObs(cache)
    /\ response = NoResponse
    /\ unclosed = 0
    /\ sink = <<>>
    /\ routed = <<>>
    /\ nsent = 0
    /\ payload = EmptyDict
    /\ error_data = EmptyDict
    /\ signal = NoSignal
    /\ presented = <<>>
    /\ nchunks = 0

LongSessionSpec == LongSessionInit /\ [][Next]_vars

(* ------------------------ a turn shown in a phantom -------------------- *)

\* a streaming worker whose answer goes to a phantom
PhantomInit ==
    /\ assistant = AssistantSettings("phantom", TRUE, None)
    /\ view = [placeholder |-> FALSE]
    /\ cache \in {History(k) : k \in 0..MaxHistory}
    /\ settings = [token |-> "sk-0123456789"]
    /\ window = [open |-> TRUE]
    /\ edits = <<>>
    /\ tokens = [prompt_tokens |-> 0, completion_tokens |-> 0]
    /\ stop_event = FALSE
    /\ pc = "run"
    /\ stack = <<>>
    /\ full_response_content = [role |-> "", content |-> ""]
    /\ full_function_call = EmptyDict
    /\ tool_calls = <<>>
    /\ ti = 1
    /\ obs = NewObs(cache)
    /\ response = NoResponse
    /\ unclosed = 0
    /\ sink = <<>>
    /\ routed = <<>>
    /\ nsent = 0
    /\ payload = EmptyDict
    /\ error_data = EmptyDict
    /\ signal = NoSignal
    /\ presented = <<>>
    /\ nchunks = 0

\* the user follows a link of the phantom, during the turn or after it
FollowLink(attribute) ==
    /\ Clicks(sink) < MaxClicks
    /\ close_phantom(attribute)

\* the turn of a streamed answer, from run to the end of
\* handle_streaming_response, with the user at the phantom
PhantomNext ==
    \/ SetStop
    \/ Run
    \/ Start
    \/ ExecuteOk
    \/ Cancel
    \/ \E chunk \in Chunks(obs.indexes, nsent, Room) : ProcessChunk(chunk)
    \/ StreamEnd
    \/ AfterLoop
    \/ FinishStreaming
    \/ \E attribute \in Links : FollowLink(attribute)

PhantomSpec == PhantomInit /\ [][PhantomNext]_vars

(* ------------------------------- claims -------------------------------- *)

\* the stream of the running ingestion ended without cancellation: the loop
\* of handle_streaming_response is left and the flag was never observed
StreamDrained == pc \in {"after_loop", "fc"} /\ assistant.stream /\ ~obs.aborted

\* the step of handle_streaming_response that caches the message (line 416)
CachesMessage == pc = "fc" /\ ti > Len(tool_calls) /\ cache' # cache

MergedCalls ==
    IF "tool_calls" \in DOMAIN full_function_call
    THEN full_function_call.tool_calls ELSE <<>>

\* C2, as stated: after a stream of tool-call fragments, for every call
\* index i delivered (i >= 1 included) exactly one merged fragment carries
\* index i, and its arguments are the concatenation, in arrival order, of
\* the partial arguments of all fragments with index i: a fragment whose
\* index exists is merged, never appended as a new one.
C2_ArgumentsPerIndex ==
    StreamDrained =>
        \A i \in obs.indexes :
            /\ Cardinality({k \in 1..Len(MergedCalls) : MergedCalls[k].index = i}) = 1
            /\ \A k \in 1..Len(MergedCalls) :
                   MergedCalls[k].index = i
                       => MergedCalls[k].function.arguments = obs.arguments[i]

\* C3, as stated: after a streaming ingestion that ended by cancellation, in
\* every mode, the cache is as long as when the ingestion started.
C3_AbortedNotCached ==
    (pc = "done" /\ obs.aborted) => Len(cache) = obs.start_len

IsToolCallRecord(m) == "tool_calls" \in DOMAIN m

\* message m is a tool message answering a call of record r
Answers(m, r) ==
    /\ Get(m, "role") = "tool"
    /\ "tool_call_id" \in DOMAIN m
    /\ \E c \in 1..Len(r.tool_calls) : Get(r.tool_calls[c], "id") = m.tool_call_id

\* no context-overflow dialog was shown during the turn
NoOverflow == \A i \in 1..Len(presented) : presented[i].kind # "dialog"

\* C5, as stated, on the turns that never trim the cache: in every reachable
\* state of the cache each tool message carries the id of a call of an
\* earlier assistant tool-call record and follows that record immediately,
\* only tool messages answering the same record standing in between -- also
\* with several parallel calls dispatched one after the other.  (Trimming
\* is left out so that the violation shown is the dispatcher's own.)
C5_ToolFollowsRecord ==
    NoOverflow =>
        \A k \in 1..Len(cache) :
            Get(cache[k], "role") = "tool" =>
                \E j \in 1..(k - 1) :
                    /\ IsToolCallRecord(cache[j])
                    /\ \A m \in (j + 1)..k : Answers(cache[m], cache[j])

\* C6, as stated: on normal stream end in panel mode an assistant content
\* message is cached only when the stream produced no tool calls and the
\* partial content accumulated some role or content; a stream that produced
\* tool calls caches its record and no further assistant message.
C6_ContentMessageOnlyWithoutCalls ==
    [][(CachesMessage /\ ~obs.aborted /\ assistant.prompt_mode = "panel")
         => /\ full_function_call = EmptyDict
            /\ (full_response_content.role # "" \/ full_response_content.content # "")]_vars

\* C7, as stated: no terminal state is reached with a response still open:
\* the transport is closed on every exit path of response handling.
C7_ClosedOnEveryExit ==
    pc \in {"done", "crashed"} => unclosed = 0

Min(a, b) == IF a < b THEN a ELSE b

\* the user answers the context-overflow dialog (and the connection holds)
AnswersDialog ==
    /\ pc = "dialog"
    /\ pc' # "dialog"
    /\ signal'.kind # "TransportError"

\* the answer is Delete: handle_response is entered again
Confirms == AnswersDialog /\ pc' = "execute"

\* what a confirmed retry does: the cache loses its min(4, L) oldest
\* entries, one request is sent, handle_response is re-entered
ConfirmedRetryEffect ==
    /\ Len(cache') = Len(cache) - Min(4, Len(cache))
    /\ nsent' = nsent + 1
    /\ Len(stack') = Len(stack) + 1

\* the user is asked: the dialog carries the message of the condition
AskedForConfirmation ==
    pc = "dialog" =>
        /\ signal.kind = "ContextLengthExceeded"
        /\ presented # <<>>
        /\ presented[Len(presented)] = [kind |-> "dialog", message |-> signal.message]

\* C8: on ContextLengthExceeded the user is asked; on Delete
\* drop_first(2) is applied once, one request is sent and the ingestor is
\* re-entered; on Cancel the cache is not trimmed, no request is sent and
\* the turn ends.
C8_DeclineEndsTurn ==
    /\ []AskedForConfirmation
    /\ [][AnswersDialog
            => IF Confirms
               THEN ConfirmedRetryEffect
               ELSE cache' = cache /\ nsent' = nsent /\ pc' = "done"]_vars

\* C9: a confirmed context-overflow retry removes from a cache of length L
\* exactly its min(4, L) oldest entries; the remaining ones keep their order.
C9_RetryDropsOldestFour ==
    [][Confirms
         => LET k == Min(4, Len(cache))
            IN /\ Len(cache') = Len(cache) - k
               /\ \A i \in 1..Len(cache') : cache'[i] = cache[i + k]]_vars

\* C9 happens: a cache of five entries was trimmed to its newest one
C9_Witness ==
    /\ pc = "execute"
    /\ stack # <<>>
    /\ stack[Len(stack)].phase = "retry"
    /\ stack[Len(stack)].obs.start_len = 5
    /\ Len(cache) = 1
    /\ Get(cache[1], "role") = "tool"

\* the step of handle_response in which getresponse returns a response
ReceivesResponse == pc = "execute" /\ unclosed' = unclosed + 1

\* C10: for a response with status in [400, 600) and a well-formed error
\* body, ContextLengthExceeded is signalled exactly when error.code is
\* 'context_length_exceeded' or error.type is 'invalid_request_error' with
\* error.param 'max_tokens', a ProviderError otherwise; both carry
\* error.message.
C10_ErrorClassification ==
    [][(ReceivesResponse /\ response'.status >= 400 /\ response'.status < 600
          /\ "error" \in DOMAIN error_data'
          /\ "message" \in DOMAIN error_data'.error)
         => LET e == error_data'.error
                overflow == \/ Get(e, "code") = "context_length_exceeded"
                            \/ /\ Get(e, "type") = "invalid_request_error"
                               /\ Get(e, "param") = "max_tokens"
            IN signal' = [kind |-> IF overflow THEN "ContextLengthExceeded"
                                   ELSE "ProviderError",
                          message |-> e.message]]_vars

\* C10 happens: the body with type and param (and no code) was classified
C10_Witness ==
    /\ pc = "dialog"
    /\ response.status = 400
    /\ error_data = [error |-> [type |-> "invalid_request_error",
                                param |-> "max_tokens", message |-> "m"]]
    /\ signal = [kind |-> "ContextLengthExceeded", message |-> "m"]

\* a ProviderError was the last condition signalled in the turn
ProviderErrorSignalled == signal.kind = "ProviderError"

\* the step appends an assistant message to the cache
AppendsAssistantMessage ==
    /\ Len(cache') = Len(cache) + 1
    /\ Get(cache'[Len(cache')], "role") = "assistant"

\* C11: a ProviderError is surfaced to the user with the provider's message
\* and is never retried: after it no request is sent, the cache is not
\* trimmed and no assistant message is appended to it.
C11_ProviderErrorNotRetried ==
    /\ [](ProviderErrorSignalled
            => /\ presented # <<>>
               /\ presented[Len(presented)] = [kind |-> "error", message |-> signal.message])
    /\ [][ProviderErrorSignalled
            => /\ nsent' = nsent
               /\ Len(cache') >= Len(cache)
               /\ ~AppendsAssistantMessage]_vars

\* C12: if a data line of the stream fails to parse as a JSON event, the
\* transport is closed, the error is raised to the caller (no handler
\* catches it), no later chunk is processed, and nothing of that stream --
\* neither an assistant message nor a tool-call record -- is appended to the
\* cache.
C12_DecodeErrorIsFatal ==
    /\ [](obs.failed
            => /\ pc = "crashed"
               /\ response.closed
               /\ Len(cache) = obs.start_len)
    /\ [][obs.failed => nchunks' = nchunks /\ cache' = cache]_vars

\* C12 happens: a panel stream delivered one content delta and then a line
\* that does not parse
C12_Witness ==
    /\ obs.failed
    /\ assistant.prompt_mode = "panel"
    /\ obs.content = "a"
    /\ full_response_content.content = "a"
    /\ nchunks = 2
    /\ pc = "crashed"
    /\ response = [status |-> 200, closed |-> TRUE]

\* the stream has ended and the arguments accumulated for some tool call
\* are not a JSON text
UnparseableArguments ==
    /\ pc = "after_loop"
    /\ \E k \in 1..Len(MergedCalls) : ~loads_ok(MergedCalls[k].function.arguments)

\* C13: if at stream end the arguments accumulated for any tool call do not
\* parse as JSON, the ingestion fails with the decode error: no ToolCall is
\* produced or dispatched, no tool-call record is cached and no follow-up
\* request is sent.
C13_UnparseableArgumentsFail ==
    [][(UnparseableArguments /\ pc' # pc)
         => /\ pc' = "crashed"
            /\ stack' = <<>>
            /\ tool_calls' = <<>>
            /\ cache' = cache
            /\ nsent' = nsent]_vars

\* C13 happens: the stream delivered a call whose arguments stop short of
\* the closing brace, and ended
C13_Witness ==
    /\ pc = "crashed"
    /\ ~obs.failed
    /\ obs.indexes = {0}
    /\ MergedCalls # <<>>
    /\ MergedCalls[1].function.arguments = ArgsHead
    /\ "hidden" \notin DOMAIN full_function_call
    /\ tool_calls = <<>>
    /\ response.closed

\* the stream ended normally and delivered tool-call fragments whose
\* arguments, joined per call index, are JSON texts
CallsDelivered ==
    /\ pc = "after_loop"
    /\ ~obs.aborted
    /\ obs.indexes # {}
    /\ \A i \in obs.indexes : loads_ok(obs.arguments[i])

\* C14: on normal stream end with tool-call fragments the ToolCall sequence
\* handed to the dispatcher has exactly one entry per distinct call index
\* received in the stream, in ascending index order.
C14_OneCallPerIndex ==
    [][(CallsDelivered /\ pc' # pc)
         => /\ pc' = "fc"
            /\ Len(tool_calls') = Cardinality(obs.indexes)
            /\ \A i \in obs.indexes : \E k \in 1..Len(tool_calls') : tool_calls'[k].index = i
            /\ \A k \in 1..(Len(tool_calls') - 1) :
                   tool_calls'[k].index < tool_calls'[k + 1].index]_vars

\* the members FUNCTION_DATA requires of the arguments of the four operations
SchemaMembers ==
    [get_region_for_text |-> {"file_path", "content"},
     replace_text_for_region |-> {"file_path", "region", "content"},
     append_text_to_point |-> {"file_path", "position", "content"},
     erase_content_of_region |-> {"file_path", "region"}]

\* the call the dispatcher is about to handle is one of the four operations
\* with arguments of its schema, and its file is open
ConformingCall ==
    /\ pc = "fc"
    /\ ti <= Len(tool_calls)
    /\ tool_calls[ti].function.name \in DOMAIN SchemaMembers
    /\ tool_calls[ti].function.arguments = SchemaMembers[tool_calls[ti].function.name]
    /\ window.open

\* a step of the worker thread in which no connection fails
WorkerStep == stop_event' = stop_event /\ signal'.kind # "TransportError"

\* C15: a call of one of the four operations whose arguments conform to the
\* advertised schema and whose file is open is executed, appends exactly
\* one tool message with the call's id to the cache and sends exactly one
\* follow-up request, whose response is then ingested.  (Insert mode, where
\* the follow-up hits the placeholder check, is left aside.)
C15_ConformingCallIsExecuted ==
    [][(ConformingCall /\ WorkerStep /\ assistant.prompt_mode # "insert")
         => /\ Len(cache') = Len(cache) + 1
            /\ SubSeq(cache', 1, Len(cache)) = cache
            /\ Get(cache'[Len(cache')], "role") = "tool"
            /\ Get(cache'[Len(cache')], "tool_call_id") = tool_calls[ti].id
            /\ nsent' = nsent + 1
            /\ pc' = "execute"
            /\ Len(edits') = Len(edits)
                 + (IF tool_calls[ti].function.name = "get_region_for_text" THEN 0 ELSE 1)]_vars

\* the conforming call about to be handled is a replace_text_for_region
ReplaceCall == ConformingCall /\ tool_calls[ti].function.name = "replace_text_for_region"

\* C16: replace_text_for_region applies its edit with the call's own
\* arguments: the region of the call is replaced by the content of the call
\* and the result is {success: true}, whatever calls preceded it in the set.
C16_ReplaceUsesOwnArguments ==
    [][(ReplaceCall /\ WorkerStep /\ assistant.prompt_mode # "insert")
         => /\ edits' = Append(edits, [command |-> "replace_region",
                                       region |-> Arg(tool_calls[ti], "region"),
                                       text |-> Arg(tool_calls[ti], "content")])
            /\ cache' # <<>>
            /\ Get(cache'[Len(cache')], "content") = SuccessResult]_vars

\* the call the dispatcher is about to handle cannot be executed: its file
\* is not open, or no branch of handle_function_call bears its name
UnexecutableCall ==
    /\ pc = "fc"
    /\ ti <= Len(tool_calls)
    /\ \/ ~window.open
       \/ tool_calls[ti].function.name \notin
            {"get_region_for_text", "replace_text_for_region",
             "append_text_to_point", "erase_content_of_region"}

\* C17: a tool call that cannot be executed is dropped silently: no error is
\* surfaced, no document is edited, no tool message is cached and no
\* follow-up request is sent; the dispatcher goes on to the next call.
C17_UnexecutableCallDropped ==
    [][(UnexecutableCall /\ stop_event' = stop_event)
         => /\ ti' = ti + 1
            /\ pc' = "fc"
            /\ presented' = presented
            /\ signal' = signal
            /\ sink' = sink
            /\ edits' = edits
            /\ cache' = cache
            /\ nsent' = nsent]_vars

\* C17 happens: the two calls of a set named a file that is not open and
\* the dispatcher went through both
C17_Witness ==
    /\ ~window.open
    /\ pc = "fc"
    /\ Len(tool_calls) = 2
    /\ tool_calls[2].function.name = "replace_text_for_region"
    /\ ti = 3
    /\ nsent = 1
    /\ edits = <<>>
    /\ presented = <<>>
    /\ Get(cache[Len(cache)], "role") # "tool"

\* the condition signalled last was shown to the user in an error box
Surfaced ==
    /\ presented # <<>>
    /\ presented[Len(presented)] = [kind |-> "error", message |-> signal.message]

\* C18: every WrongUserInput condition -- the token missing or invalid, in
\* insert mode the placeholder unset or not found -- is surfaced to the user
\* and ends the turn before any request of the turn has been sent.
C18_WrongUserInputBeforeRequest ==
    signal.kind = "WrongUserInput" => (Surfaced /\ pc = "done" /\ nsent = 0)

\* C19: a connection failure is surfaced to the user and followed by no
\* further request, wherever it occurs: sending the first request, waiting
\* for the response, sending a retry, sending a tool follow-up.
C19_TransportErrorSurfaced ==
    /\ [](signal.kind = "TransportError" => Surfaced)
    /\ [][signal.kind = "TransportError" => nsent' = nsent]_vars

\* the worker thread has ended: run returned or an exception left it; both
\* are the terminal state of the turn
TurnOver == pc \in {"done", "crashed"}

IsPrefix(s, t) == Len(s) <= Len(t) /\ SubSeq(t, 1, Len(s)) = s

\* a handle_response entered for a tool call runs while its caller stays
\* suspended below it: the stack of activations grows by one activation
\* and shrinks from the top only
NestedFinishesFirst ==
    \/ IsPrefix(stack', stack)
    \/ Len(stack') = Len(stack) + 1 /\ IsPrefix(stack, stack')

\* an ingestion that produced no tool call sends nothing more and returns
\* to its caller
RecursionEnds ==
    (pc = "fc" /\ tool_calls = <<>> /\ WorkerStep)
        => /\ nsent' = nsent
           /\ edits' = edits
           /\ pc' = "done" \/ (pc' = "fc" /\ Len(stack') < Len(stack))

\* C20: with finite response streams, a provider that asks for tool calls
\* only finitely often and a user who confirms the retry only finitely
\* often, every turn of the worker reaches its terminal state; an ingestion
\* without a tool call ends the recursion it is in, every nested ingestion
\* started for a tool call finishes before the one that started it, and
\* none is left suspended when the turn has returned
C20_TurnTerminates ==
    /\ <>TurnOver
    /\ [][RecursionEnds]_vars
    /\ [][NestedFinishesFirst]_vars
    /\ [](pc = "done" => stack = <<>>)

\* C20 happens: a turn that sent follow-up requests for tool calls, the last
\* answered without a tool call, has returned
C20_Witness ==
    /\ pc = "done"
    /\ nsent = MaxRequests
    /\ Len(tool_calls) = 2
    /\ \E k \in 1..Len(cache) : Get(cache[k], "role") = "tool"
    /\ presented = <<>>

\* the message the spec finalizes from choices[0].message
FinalizedMessage(m) ==
    [role |-> IF "role" \in DOMAIN m /\ m.role # "" THEN m.role ELSE "assistant",
     content |-> m.content]

\* C21: a buffered response with status 200 whose choices[0].message has a
\* content is finalized with the role of the message, "assistant" when the
\* role is absent or empty, and with its content; the step sends the
\* content to the sink of the mode once, appends the message to the cache
\* once and ends the turn
C21_PlainMessageFinalized ==
    [][\A body \in PlainBodies :
          ("message" \in DOMAIN body /\ HandlePlain(body))
              => /\ cache' = cache \o <<FinalizedMessage(body.message)>>
                 /\ sink' = sink \o <<[dest |-> Dest(assistant.prompt_mode),
                                        text |-> body.message.content]>>
                 /\ pc' = "done"]_vars

\* C21 happens: the body {role: '', content: 'b'} was ingested and cached
\* with the role defaulted
C21_Witness ==
    /\ pc = "done"
    /\ ~assistant.stream
    /\ cache # <<>>
    /\ cache[Len(cache)] = [role |-> "assistant", content |-> "b"]
    /\ sink # <<>>
    /\ sink[Len(sink)].text = "b"

\* config.assistant_role is set
RoleSet == assistant.assistant_role # None /\ assistant.assistant_role # ""

\* a request was built and sent
RequestSent == nsent >= 1 /\ "messages" \in DOMAIN payload

\* C22: when assistant_role is set, the first message of the request is a
\* system message whose content holds the role text, with the nudge behind
\* it or without
C22_RolePreambleKept ==
    (RoleSet /\ RequestSent)
        => /\ payload.messages # <<>>
           /\ payload.messages[1].role = "system"
           /\ payload.messages[1].content \in
                  {assistant.assistant_role, assistant.assistant_role \o DonationNudge}

\* C23: the serialized request has the key of an optional field exactly
\* when the field is set in the settings, and the key `tools` exactly when
\* tools are enabled
C23_OptionalFieldsOmitted ==
    RequestSent
        => /\ \A k \in OptionalFields : k \in DOMAIN payload <=> k \in DOMAIN assistant
           /\ \A k \in OptionalFields \cap DOMAIN payload : payload[k] = assistant[k]
           /\ "tools" \in DOMAIN payload
                  <=> ("tools" \in DOMAIN assistant /\ assistant.tools)

\* C23 happens: a request was sent for settings with max_tokens unset,
\* temperature set, stream false and tools switched off
C23_Witness ==
    /\ RequestSent
    /\ "max_tokens" \notin DOMAIN assistant
    /\ "temperature" \in DOMAIN assistant
    /\ "stream" \in DOMAIN assistant
    /\ ~assistant.stream
    /\ "tools" \in DOMAIN assistant
    /\ ~assistant.tools
    /\ DOMAIN payload = {"messages", "model", "temperature", "stream"}

\* the message holds the donation nudge
HasNudge(m) ==
    /\ "content" \in DOMAIN m
    /\ m.content \in {r \o DonationNudge : r \in RoleTexts \ {None}}

\* the session is small when a request is built: at most 8 entries in the
\* cache and at most 10,000 tokens counted
SmallSession ==
    /\ Len(cache) <= 8
    /\ tokens.prompt_tokens + tokens.completion_tokens <= 10000

\* C30: a request built with advertisement off, or in a small session, holds
\* the donation nudge in none of its messages, whatever was drawn
C30_NoNudgeUnlessEnabledAndLarge ==
    [][(nsent' = nsent + 1 /\ (~assistant.advertisement \/ SmallSession))
          => \A i \in 1..Len(payload'.messages) : ~HasNudge(payload'.messages[i])]_vars

\* C30 happens: with a role set and advertisement on, a request was sent in
\* a session of 8 entries and 10,000 tokens
C30_Witness ==
    /\ RequestSent
    /\ RoleSet
    /\ assistant.advertisement
    /\ assistant.prompt_mode = "phantom"
    /\ Len(cache) = 8
    /\ tokens.completion_tokens = 4000
    /\ payload.messages[1] = [role |-> "system", content |-> ""]

\* the estimate of the spec: the sum of floor(len(content) / 4) over the
\* first n messages that have a content
RECURSIVE estimate_tokens(_, _)
estimate_tokens(messages, n) ==
    IF n = 0 THEN 0
    ELSE estimate_tokens(messages, n - 1)
         + (IF "content" \in DOMAIN messages[n]
            THEN Len(messages[n].content) \div 4 ELSE 0)

\* C24: the estimate of one message with content 'abcd' is 1 and with
\* 'abcdefgh' is 2, a message without content counts 0; and every step that
\* sends a request, the first of the turn, a retry or a tool follow-up,
\* adds the estimate of that request's messages to the prompt tokens of the
\* counter and changes nothing else of it
C24_PromptEstimateCounted ==
    /\ [](/\ calculate_prompt_tokens(<<[content |-> "abcd"]>>) = 1
          /\ calculate_prompt_tokens(<<[content |-> "abcdefgh"]>>) = 2
          /\ calculate_prompt_tokens(<<[content |-> "abc"], [role |-> "assistant"],
                                       [content |-> "abcdefghi"]>>) = 2)
    /\ [][nsent' = nsent + 1
            => /\ tokens'.prompt_tokens = tokens.prompt_tokens
                      + estimate_tokens(payload'.messages, Len(payload'.messages))
               /\ tokens'.completion_tokens = tokens.completion_tokens]_vars

\* C24 happens: the turn sent its first request, a tool follow-up and a
\* retry or second follow-up, and the counter holds their estimates
C24_Witness ==
    /\ nsent = MaxRequests
    /\ tokens.prompt_tokens >= 3
    /\ \E i \in 1..Len(payload.messages) : Get(payload.messages[i], "role") = "tool"

\* the oldest entries left the log and nothing else changed
IsSuffix(s, t) == Len(s) <= Len(t) /\ SubSeq(t, Len(t) - Len(s) + 1, Len(t)) = s

\* C25: the message log of the cache changes only by entries appended at
\* its end; the one exception is the retry the user confirmed in the
\* context-overflow dialog, which removes oldest entries and nothing else
C25_CacheAppendOnly ==
    [][\/ IsPrefix(cache, cache')
       \/ /\ pc = "dialog"
          /\ signal.kind = "ContextLengthExceeded"
          /\ IsSuffix(cache', cache)]_vars

\* C25 happens: a phantom turn whose log was appended to by the user's
\* history action and, after a confirmed retry took the oldest entries,
\* by the worker
C25_Witness ==
    /\ assistant.prompt_mode = "phantom"
    /\ \E k \in 1..Len(cache) : Get(cache[k], "name") = "OpenAI_completion"
                                  /\ Get(cache[k], "role") = "assistant"
    /\ \A k \in 1..Len(cache) : Get(cache[k], "role") # "tool"
    /\ \E k \in 1..Len(presented) : presented[k].kind = "dialog"
    /\ nsent >= 2
    /\ pc = "done"

\* the step processed `chunk` in full: it was decoded and counted, its
\* content went to handle_sse_delta and the sink, its tool calls were merged
ProcessedInFull(chunk) ==
    /\ obs' = Observe(obs, chunk)
    /\ IF chunk.kind = "event" /\ TruthyStr(chunk.delta, "content")
       THEN /\ routed' = Append(routed, chunk.delta)
            /\ sink' = Append(sink, [dest |-> Dest(assistant.prompt_mode),
                                     text |-> chunk.delta.content])
       ELSE IF chunk.kind = "event" /\ TruthySeq(chunk.delta, "tool_calls")
       THEN full_function_call' = append_non_null(full_function_call, chunk.delta)
       ELSE TRUE

Decodes(text) ==
    /\ pc = "stream"
    /\ ~stop_event
    /\ nchunks' = nchunks + 1
    /\ text # ""
    /\ obs'.content = obs.content \o text

\* C27: the step that decodes a non-empty content fragment hands that
\* fragment to the sink of the mode, behind everything the sink was given
\* before, so it is emitted before the next chunk is pulled; the sink is
\* only ever appended to, so it holds the fragments in arrival order and
\* none is held back
C27_FragmentEmittedAtOnce ==
    /\ [][\A text \in {"a", "b"} :
            Decodes(text)
                => sink' = Append(sink, [dest |-> Dest(assistant.prompt_mode),
                                         text |-> text])]_vars
    /\ [][IsPrefix(sink, sink')]_vars

\* C27 happens: a stream into the buffer delivered 'a' and then 'b'; both
\* are in the sink, in this order, while the stream is still open
C27_Witness ==
    /\ pc = "stream"
    /\ assistant.prompt_mode = "append"
    /\ obs.content = "ab"
    /\ Len(sink) >= 2
    /\ sink[Len(sink) - 1] = [dest |-> "buffer", text |-> "a"]
    /\ sink[Len(sink)] = [dest |-> "buffer", text |-> "b"]

\* handle_function_call sends the follow-up request of a tool call
FollowUpSent ==
    /\ pc = "fc"
    /\ nsent' = nsent + 1

\* the latest response is in flight: it was not closed and its body was not
\* read to the end (the body of an error response is read whole when the
\* response arrives)
InFlight ==
    /\ ~response.closed
    /\ response.status < 400

\* C28, as stated: one request/response is in flight at a time: when the
\* follow-up request of a tool call is sent, the response that produced the
\* call was read to its end and no response is in flight, and a request is
\* sent only while no ingestion is running, so that the nested ingestion of
\* one call has returned before the next call is dispatched.
C28_OneInFlight ==
    [][/\ FollowUpSent => (~obs.aborted /\ ~InFlight)
       /\ nsent' = nsent + 1 => pc \in {"start", "dialog", "fc"}]_vars

\* the lines that carry no event: one that does not start with 'data:' and
\* the end marker with either line ending
IgnoredLines ==
    {[kind |-> "other"]} \cup {[kind |-> "done", eol |-> e] : e \in LineEndings}

\* C29, as stated: a line that does not start with 'data:' and the [DONE]
\* marker line are not given to the JSON decoder and change neither the
\* stream state, the sink nor the cache, and the loop goes on with the next
\* line.
C29_IgnoredLinesChangeNothing ==
    [][\A chunk \in IgnoredLines :
          ProcessChunk(chunk)
              => /\ ~is_decoded(chunk)
                 /\ pc' = "stream"
                 /\ UNCHANGED <<full_response_content, full_function_call, tool_calls,
                                sink, routed, cache, presented, response>>]_vars

\* C31, as stated: no serialized request holds both max_tokens and
\* max_completion_tokens: at most one of the two keys is emitted, whatever
\* the settings of the assistant are.
C31_OneTokenLimit ==
    RequestSent =>
        ~({"max_tokens", "max_completion_tokens"} \subseteq DOMAIN payload)

\* a step that builds a request and sends it
BuildsRequest == nsent' = nsent + 1

\* C32: building a request leaves the message log alone: over a step that
\* builds and sends a request the log changes only by what the handler
\* itself gives to the cache (the new message in panel mode, the tool
\* message of a dispatched call, the trim of a confirmed retry), never by
\* the messages create_message and prepare_payload add to the request, and
\* of the token counter the completion tokens stay as they were.
C32_BuildLeavesLog ==
    [][BuildsRequest =>
          /\ pc = "start" =>
                cache' = IF assistant.prompt_mode = "panel"
                         THEN cache \o <<UserMessage(Command)>> ELSE cache
          /\ pc = "fc" =>
                cache' = cache \o <<ToolMessage(tool_result(tool_calls[ti]),
                                                tool_calls[ti].id)>>
          /\ pc = "dialog" => cache' = drop_first(cache, DropPairs)
          /\ tokens'.completion_tokens = tokens.completion_tokens]_vars

\* C32, witness: a request was built whose messages go beyond the log (the
\* placeholder and the command were added) and the log is the one of the
\* session
C32_Witness ==
    /\ pc = "execute"
    /\ nsent = 1
    /\ assistant.prompt_mode = "insert"
    /\ assistant.placeholder = "[PH]"
    /\ Len(payload.messages) = Len(cache) + 2
    /\ cache = History(1)
    /\ tokens.prompt_tokens > 0

\* C33, as stated: once the running stream was cancelled, the tool-call
\* fragments it had accumulated are not acted on: the code after the loop
\* builds no call list and caches no tool-call record, and no document is
\* edited and no request sent for them.
C33_CancelledCallsNotDispatched ==
    [][obs.aborted =>
          /\ pc = "after_loop" => (cache' = cache /\ tool_calls' = <<>>)
          /\ edits' = edits
          /\ nsent' = nsent]_vars

\* how often the question of the turn is among `messages`
Occurrences(messages) ==
    Cardinality({i \in 1..Len(messages) : messages[i] = UserMessage(Command)})

\* C34, as stated: in panel mode, when the user confirms the retry and the
\* trimmed cache still holds the question of the turn, the request that is
\* sent again holds the question once, not as context and as new message.
C34_QuestionOnceAfterRetry ==
    [][(Confirms /\ assistant.prompt_mode = "panel" /\ Occurrences(cache') >= 1)
          => Occurrences(payload'.messages) = 1]_vars

\* a step of a streaming worker whose mode is not panel, with no tool call
\* held by the running ingestion
NoCallStep ==
    /\ assistant.stream
    /\ assistant.prompt_mode # "panel"
    /\ full_function_call' = EmptyDict

\* C35, as stated: in streaming mode with a destination other than the
\* panel, a turn whose response carries no tool call leaves the message log
\* unchanged.
C35_NoCallTurnLeavesLog ==
    [][NoCallStep => cache' = cache]_vars

\* C35, amended: in streaming mode with a destination other than the panel,
\* a turn whose response carries no tool call appends nothing to the message
\* log, neither the user input nor the reply; the log changes only when the
\* user confirms a context-overflow retry, which removes its oldest entries.
C35_NoCallTurnAppendsNothing ==
    [][NoCallStep => /\ IsSuffix(cache', cache)
                     /\ pc # "dialog" => cache' = cache]_vars

\* C35 happens: a streamed reply without tool call was written to the
\* buffer, the turn is over and the log is the one of the session
C35_Witness ==
    /\ pc = "done"
    /\ assistant.stream
    /\ assistant.prompt_mode = "replace"
    /\ full_function_call = EmptyDict
    /\ obs.content = "ab"
    /\ nsent = 1
    /\ cache = History(1)

\* C36: of the links of the phantom only history changes the message log,
\* appending the stored user input and then one assistant message whose
\* content is every fragment streamed to the phantom, in order (for a turn
\* of one uncancelled response: the content the response delivered); every
\* recognized action removes the phantom, and a link that is no action
\* leaves phantom and log as they were.
C36_OnlyHistoryCaches ==
    [][\A attribute \in Links :
          FollowLink(attribute) =>
              /\ attribute # "history" => cache' = cache
              /\ attribute = "history" =>
                    /\ Len(cache') = Len(cache) + 2
                    /\ IsPrefix(cache, cache')
                    /\ cache'[Len(cache) + 1] = UserMessage(Command)
                    /\ cache'[Len(cache')].role = "assistant"
                    /\ (nsent = 1 /\ ~obs.aborted)
                          => cache'[Len(cache')].content = obs.content
              /\ attribute \in PhantomActions => ~phantom_shown(sink')
              /\ attribute \notin PhantomActions => phantom_shown(sink')]_vars

\* C36 happens: two fragments were streamed to the phantom, the turn is
\* over, and the user chose history: the log ends with the question and the
\* whole completion and the phantom is gone
C36_Witness ==
    /\ pc = "done"
    /\ obs.content = "ab"
    /\ ~phantom_shown(sink)
    /\ Len(cache) >= 2
    /\ cache[Len(cache) - 1] = UserMessage(Command)
    /\ cache[Len(cache)] = [role |-> "assistant", content |-> "ab",
                            name |-> "OpenAI_completion"]

====
